---- MODULE Spec2Model ----
(***************************************************************************)
(* temperature-api: GET /temperature?location=<str>                        *)
(* (src/apps/temperature-api/main.py).                                     *)
(*                                                                         *)
(* The route handler get_temperature is a plain `def`, so the framework    *)
(* runs it on worker threads: several requests can be in flight at once.   *)
(* A request goes through three steps:                                     *)
(*   Bind     parameter binding of line 9 (location is required),          *)
(*   Sample   line 14, value = round(random.uniform(-25.0, 35.0), 1),      *)
(*   Respond  lines 16-21, the clock is read and the dict is returned.     *)
(* The process-wide generator of the random module and the wall clock are  *)
(* state outside the handler; both are part of the model.                  *)
(*                                                                         *)
(* Numbers are exact rationals [num, den].  A timestamp is the sequence of *)
(* characters isoformat() produces.                                        *)
(***************************************************************************)
EXTENDS Integers, Sequences, FiniteSets, TLC

VARIABLES
    rng,      \* state of the process-wide generator behind random.uniform
    clock,    \* the wall clock, in ticks of TickMicros microseconds
    pc,       \* pc[w]: where worker w is in the handling of its request
    req,      \* req[w]: the query string of the request worker w handles
    loc,      \* loc[w]: the bound parameter `location` of worker w
    seen,     \* seen[w]: the generator state the draw of worker w read
    x,        \* x[w]: the result of random.uniform(-25.0, 35.0)
    value,    \* value[w]: the local `value` of line 14
    out,      \* the last request/response exchange the process completed
    served,   \* number of requests the process has accepted so far
    ref,      \* the timestamp of one earlier 200 response (observer)
    stepped   \* TRUE iff the clock was set back since ref was taken

vars == <<rng, clock, pc, req, loc, seen, x, value, out, served, ref, stepped>>

--------------------------------------------------------------------------
(* Bounds of the model *)

MaxWorkers == 2        \* worker threads handling requests concurrently
MaxRequests == 2       \* requests accepted in one behaviour
MaxSeed == 2           \* the generator is seeded with one of 0..MaxSeed
MaxClock == 3          \* the clock runs over 0..MaxClock ticks
TickMicros == 60000    \* microseconds per clock tick
ClockOrigin == 940000  \* microseconds into the minute at tick 0
RandomResolution == 4096  \* random() returns k/RandomResolution, 0 <= k < it
RngMultiplier == 257   \* the generator's step: s -> (a*s + c) % resolution
RngIncrement == 4095

(* Program constants, line 14 *)
LowTemp == -25
HighTemp == 35
NDigits == 1

Workers == 1..MaxWorkers

Locations == {"", "kitchen", " Kitchen "}

\* The query string of a request, as far as the route reads it: whether it
\* has a `location` key, and that key's decoded value.
NoLocation == [present |-> FALSE, text |-> ""]
WithLocation(l) == [present |-> TRUE, text |-> l]
Queries == {WithLocation(l) : l \in Locations} \cup {NoLocation}

\* What a variable holds while it holds nothing
NoBody == [none |-> TRUE]
NoText == ""
NoNumber == [num |-> 0, den |-> 1]
NoTimestamp == <<>>

--------------------------------------------------------------------------
(* Exact arithmetic *)

Rat(n, d) == [num |-> n, den |-> d]

Abs(n) == IF n < 0 THEN -n ELSE n

Pow10(n) == 10 ^ n

\* random.random(): advances the generator and returns a float in [0, 1)
RngNext(s) == (RngMultiplier * s + RngIncrement) % RandomResolution

Random(s) == Rat(RngNext(s), RandomResolution)

\* a bug: the offset is taken from the upper end, b + (b - a) * random()
UniformFromHigh(a, b, r) == Rat(b * r.den + (b - a) * r.num, r.den)

\* random.uniform(a, b) is a + (b - a) * random()
Uniform(a, b, r) == Rat(a * r.den + (b - a) * r.num, r.den)

\* a bug: the digits after ndigits are cut off, int(number * 10^n) / 10^n
RoundTruncate(number, ndigits) ==
    LET n == number.num * Pow10(ndigits)
        d == number.den
        q == n \div d
    IN  Rat(IF n < 0 /\ n % d # 0 THEN q + 1 ELSE q, Pow10(ndigits))

\* round(number, ndigits): to the nearest multiple of 10^-ndigits, a tie
\* going to the even one
Round(number, ndigits) ==
    LET n == number.num * Pow10(ndigits)
        d == number.den
        q == n \div d
        r == n % d
        up == \/ 2 * r > d
              \/ 2 * r = d /\ q % 2 # 0
    IN  Rat(IF up THEN q + 1 ELSE q, Pow10(ndigits))

--------------------------------------------------------------------------
(* The clock and isoformat() *)

\* datetime.now(timezone.utc): the instant the wall clock shows
Now(c) ==
    LET micros == ClockOrigin + c * TickMicros
    IN  [second |-> micros \div 1000000, microsecond |-> micros % 1000000]

Digits == <<"0", "1", "2", "3", "4", "5", "6", "7", "8", "9">>

DigitChar(d) == Digits[d + 1]

DigitVal(ch) == CHOOSE d \in 0..9 : Digits[d + 1] = ch

RECURSIVE ZeroPadded(_, _)
\* n written in exactly `width` decimal digits
ZeroPadded(n, width) ==
    IF width = 0 THEN <<>>
    ELSE Append(ZeroPadded(n \div 10, width - 1), DigitChar(n % 10))

RECURSIVE Decimal(_)
\* n written without leading zeros
Decimal(n) ==
    IF n < 10 THEN <<DigitChar(n)>>
    ELSE Append(Decimal(n \div 10), DigitChar(n % 10))

\* The model's clock stays within the first minute of one day, so the date,
\* hour and minute of every timestamp are these.
DatePrefix ==
    <<"1", "9", "7", "0", "-", "0", "1", "-", "0", "1", "T",
      "0", "0", ":", "0", "0", ":">>

UtcOffset == <<"+", "0", "0", ":", "0", "0">>

\* a bug: the microseconds are written without their leading zeros
IsoFormatUnpadded(dt) ==
    DatePrefix
      \o ZeroPadded(dt.second, 2)
      \o (IF dt.microsecond = 0 THEN <<>>
          ELSE <<".">> \o Decimal(dt.microsecond))
      \o UtcOffset

\* datetime.isoformat(): the fraction is left out when microsecond is 0
IsoFormat(dt) ==
    DatePrefix
      \o ZeroPadded(dt.second, 2)
      \o (IF dt.microsecond = 0 THEN <<>>
          ELSE <<".">> \o ZeroPadded(dt.microsecond, 6))
      \o UtcOffset

--------------------------------------------------------------------------
(* The handler *)

\* a bug: the location is normalised (location.strip()) before it is echoed
ReadingStripped(v, dt, location) ==
    [value |-> v, unit |-> "C", timestamp |-> IsoFormat(dt),
     location |-> IF location = " Kitchen " THEN "Kitchen" ELSE location]

\* a bug: the unit is spelled out
ReadingUnitSpelled(v, dt, location) ==
    [value |-> v, unit |-> "Celsius", timestamp |-> IsoFormat(dt),
     location |-> location]

\* a bug: an empty location is taken for "no sensor" and reads 0.0
ReadingDefaultsEmpty(v, dt, location) ==
    [value |-> IF location = "" THEN Rat(0, Pow10(NDigits)) ELSE v,
     unit |-> "C", timestamp |-> IsoFormat(dt), location |-> location]

\* lines 16-21: the dict the handler returns
Reading(v, dt, location) ==
    [value |-> v, unit |-> "C", timestamp |-> IsoFormat(dt),
     location |-> location]

\* the whole handler as a function of what it reads: the parameter, the
\* generator state and the clock
GetTemperature(location, s, c) ==
    Reading(Round(Uniform(LowTemp, HighTemp, Random(s)), NDigits),
            Now(c), location)

\* the framework's answer to a request whose required parameter is missing
ValidationError == [detail |-> "missing", field |-> "location"]

NoExchange ==
    [status |-> 0, query |-> NoLocation, body |-> NoBody,
     rngRead |-> 0, now |-> 0]

Init ==
    /\ rng \in 0..MaxSeed
    /\ clock = 0
    /\ pc = [w \in Workers |-> "idle"]
    /\ req = [w \in Workers |-> NoLocation]
    /\ loc = [w \in Workers |-> NoText]
    /\ seen = [w \in Workers |-> 0]
    /\ x = [w \in Workers |-> NoNumber]
    /\ value = [w \in Workers |-> NoNumber]
    /\ out = NoExchange
    /\ served = 0
    /\ ref = NoTimestamp
    /\ stepped = FALSE

\* a bug: an empty value is taken for a missing one
BindRejectsEmpty(w, q) ==
    /\ pc[w] = "idle"
    /\ served < MaxRequests
    /\ served' = served + 1
    /\ IF ~q.present \/ q.text = ""
       THEN /\ out' = [status |-> 422, query |-> q, body |-> ValidationError,
                       rngRead |-> 0, now |-> 0]
            /\ UNCHANGED <<pc, req, loc>>
       ELSE /\ pc' = [pc EXCEPT ![w] = "bound"]
            /\ req' = [req EXCEPT ![w] = q]
            /\ loc' = [loc EXCEPT ![w] = q.text]
            /\ UNCHANGED out
    /\ UNCHANGED <<rng, clock, seen, x, value, ref, stepped>>

\* a bug: the parameter has a default, `location: str = Query("")`
BindDefaultsMissing(w, q) ==
    /\ pc[w] = "idle"
    /\ served < MaxRequests
    /\ served' = served + 1
    /\ pc' = [pc EXCEPT ![w] = "bound"]
    /\ req' = [req EXCEPT ![w] = q]
    /\ loc' = [loc EXCEPT ![w] = q.text]
    /\ UNCHANGED <<rng, clock, seen, x, value, out, ref, stepped>>

\* a bug: the parameter is checked by hand after the handler has drawn
BindDrawsFirst(w, q) ==
    /\ pc[w] = "idle"
    /\ served < MaxRequests
    /\ served' = served + 1
    /\ IF ~q.present
       THEN /\ out' = [status |-> 422, query |-> q, body |-> ValidationError,
                       rngRead |-> 0, now |-> 0]
            /\ rng' = RngNext(rng)
            /\ UNCHANGED <<pc, req, loc>>
       ELSE /\ pc' = [pc EXCEPT ![w] = "bound"]
            /\ req' = [req EXCEPT ![w] = q]
            /\ loc' = [loc EXCEPT ![w] = q.text]
            /\ UNCHANGED <<out, rng>>
    /\ UNCHANGED <<clock, seen, x, value, ref, stepped>>

\* line 9: `location: str = Query(...)`.  A request without the parameter is
\* answered 422 by the framework and the handler is not called.
Bind(w, q) ==
    /\ pc[w] = "idle"
    /\ served < MaxRequests
    /\ served' = served + 1
    /\ IF ~q.present
       THEN /\ out' = [status |-> 422, query |-> q, body |-> ValidationError,
                       rngRead |-> 0, now |-> 0]
            /\ UNCHANGED <<pc, req, loc>>
       ELSE /\ pc' = [pc EXCEPT ![w] = "bound"]
            /\ req' = [req EXCEPT ![w] = q]
            /\ loc' = [loc EXCEPT ![w] = q.text]
            /\ UNCHANGED out
    /\ UNCHANGED <<rng, clock, seen, x, value, ref, stepped>>

\* a bug: `value` is a module-level global, one for all requests
SampleGlobalValue(w) ==
    /\ pc[w] = "bound"
    /\ seen' = [seen EXCEPT ![w] = rng]
    /\ rng' = RngNext(rng)
    /\ x' = [x EXCEPT ![w] = Uniform(LowTemp, HighTemp, Random(rng))]
    /\ value' = [v \in Workers |-> Round(x'[w], NDigits)]
    /\ pc' = [pc EXCEPT ![w] = "sampled"]
    /\ UNCHANGED <<clock, req, loc, out, served, ref, stepped>>

\* line 14
Sample(w) ==
    /\ pc[w] = "bound"
    /\ seen' = [seen EXCEPT ![w] = rng]
    /\ rng' = RngNext(rng)
    /\ x' = [x EXCEPT ![w] = Uniform(LowTemp, HighTemp, Random(rng))]
    /\ value' = [value EXCEPT ![w] = Round(x'[w], NDigits)]
    /\ pc' = [pc EXCEPT ![w] = "sampled"]
    /\ UNCHANGED <<clock, req, loc, out, served, ref, stepped>>

\* lines 16-21; the locals of the call are gone when it returns
Respond(w) ==
    /\ pc[w] = "sampled"
    /\ out' = [status |-> 200, query |-> req[w],
               body |-> Reading(value[w], Now(clock), loc[w]),
               rngRead |-> seen[w], now |-> clock]
    /\ pc' = [pc EXCEPT ![w] = "idle"]
    /\ req' = [req EXCEPT ![w] = NoLocation]
    /\ loc' = [loc EXCEPT ![w] = NoText]
    /\ seen' = [seen EXCEPT ![w] = 0]
    /\ x' = [x EXCEPT ![w] = NoNumber]
    /\ value' = [value EXCEPT ![w] = NoNumber]
    /\ \E keep \in BOOLEAN :
         IF keep /\ ref # NoTimestamp
         THEN UNCHANGED <<ref, stepped>>
         ELSE ref' = out'.body.timestamp /\ stepped' = FALSE
    /\ UNCHANGED <<rng, clock, served>>

\* time passes
Tick ==
    /\ \E c \in (clock + 1)..MaxClock : clock' = c
    /\ UNCHANGED <<rng, pc, req, loc, seen, x, value, out, served, ref, stepped>>

\* the wall clock is set back (NTP step, administrator)
SetBack ==
    /\ \E c \in 0..(clock - 1) : clock' = c
    /\ stepped' = (ref # NoTimestamp)
    /\ UNCHANGED <<rng, pc, req, loc, seen, x, value, out, served, ref>>

Next ==
    \/ \E w \in Workers, q \in Queries : Bind(w, q)
    \/ \E w \in Workers : Sample(w)
    \/ \E w \in Workers : Respond(w)
    \/ Tick
    \/ SetBack

Spec == Init /\ [][Next]_vars

--------------------------------------------------------------------------
(* Reading responses back *)

RECURSIVE DecimalOf(_)
\* the number a sequence of digit characters writes
DecimalOf(digits) ==
    IF digits = <<>> THEN 0
    ELSE DecimalOf(SubSeq(digits, 1, Len(digits) - 1)) * 10
           + DigitVal(digits[Len(digits)])

\* the microseconds into the minute that a timestamp "....:SS[.f...]+00:00"
\* denotes
ParseIso(ts) ==
    LET tail == SubSeq(ts, Len(DatePrefix) + 1, Len(ts) - Len(UtcOffset))
        frac == IF Len(tail) > 2 THEN SubSeq(tail, 4, Len(tail)) ELSE <<>>
    IN  DecimalOf(SubSeq(tail, 1, 2)) * 1000000
          + DecimalOf(frac) * Pow10(6 - Len(frac))

\* the instant, in microseconds into the minute, that tick c of the clock is
InstantOf(c) == ClockOrigin + c * TickMicros

Answered == out.status = 200

InFlight(w) == pc[w] # "idle"

Tenths == (LowTemp * 10)..(HighTemp * 10)

FieldNames == {"value", "unit", "timestamp", "location"}

--------------------------------------------------------------------------
(* C1: the value of every response to a request that carries a location  *)
(* lies in [-25.0, 35.0], both ends included, after rounding, whatever    *)
(* the generator returns.                                                 *)
C1_ValueInRange ==
    /\ Answered =>
         /\ LowTemp * out.body.value.den <= out.body.value.num
         /\ out.body.value.num <= HighTemp * out.body.value.den
    /\ \A w \in Workers : pc[w] = "sampled" =>
         /\ LowTemp * value[w].den <= value[w].num
         /\ value[w].num <= HighTemp * value[w].den

\* a response whose value was rounded up onto the upper end, 35.0
C1_Witness ==
    /\ Answered
    /\ out.body.value = Rat(HighTemp * 10, 10)
    /\ out.rngRead = 0

\* what is answered to a request without location, and who is handled
C2_RejectedState ==
    /\ (out.status # 0 /\ ~out.query.present) =>
         (out.status = 422 /\ out.body = ValidationError)
    /\ \A w \in Workers : InFlight(w) => req[w].present

\* what the step that rejects a request leaves alone
C2_RejectedStep ==
    (served' = served + 1 /\ out'.status = 422 /\ out' # out) =>
        UNCHANGED <<rng, clock, pc, req, loc, seen, x, value>>

(* C2: a request without location is answered 422 with the validation     *)
(* error; the handler body is not run for it: nothing is drawn, the clock  *)
(* is not read, no worker starts on it and no reading is built.            *)
C2_MissingLocationRejected ==
    [](C2_RejectedState) /\ [][C2_RejectedStep]_vars

\* the process has just rejected a request, with nothing in flight
C2_Witness ==
    /\ out.status = 422
    /\ ~out.query.present
    /\ \A w \in Workers : ~InFlight(w)

(* C3: the location of a response is the location of its request, exactly, *)
(* the empty string included.                                              *)
C3_LocationEchoed ==
    Answered => out.body.location = out.query.text

\* a location with capitals and surrounding blanks came back as it was sent
C3_Witness ==
    /\ Answered
    /\ out.query = WithLocation(" Kitchen ")
    /\ out.body.location = " Kitchen "

(* C4 as claimed: of two responses, the earlier one's timestamp is at most *)
(* the later one's, whatever the wall clock does.                          *)
C4_TimestampsNeverDecrease ==
    (Answered /\ ref # NoTimestamp) =>
        ParseIso(ref) <= ParseIso(out.body.timestamp)

(* C4: every timestamp is the wall clock's reading at the moment its       *)
(* request is handled; so of two responses the earlier one's timestamp is  *)
(* at most the later one's provided the wall clock was not set back        *)
(* between the two readings.                                               *)
C4_TimestampsFollowClock ==
    Answered =>
        /\ ParseIso(out.body.timestamp) = InstantOf(out.now)
        /\ (ref # NoTimestamp /\ ~stepped) =>
              ParseIso(ref) <= ParseIso(out.body.timestamp)

\* two responses, the later one stamped strictly later, across the turn of
\* a second
C4_Witness ==
    /\ Answered
    /\ ref # NoTimestamp
    /\ ~stepped
    /\ ParseIso(ref) < 1000000
    /\ ParseIso(out.body.timestamp) > 1000000

(* C5: a request that carries a location is answered 200 with exactly the  *)
(* fields value, unit, timestamp and location, whatever the string is: it  *)
(* is never rejected, and once bound it can always go on to its response.  *)
C5_LocationSucceeds ==
    /\ (out.status # 0 /\ out.query.present) =>
         (out.status = 200 /\ DOMAIN out.body = FieldNames)
    /\ \A w \in Workers :
         /\ pc[w] = "bound" => ENABLED Sample(w)
         /\ pc[w] = "sampled" => ENABLED Respond(w)

\* the empty location was answered 200
C5_Witness ==
    /\ Answered
    /\ out.query = WithLocation("")
    /\ DOMAIN out.body = FieldNames

(* C6: the unit of every response is "C".                                  *)
C6_UnitIsC ==
    Answered => out.body.unit = "C"

\* a second response, after an earlier one, with another value
C6_Witness ==
    /\ Answered
    /\ out.body.unit = "C"
    /\ out.rngRead > MaxSeed
    /\ out.query.text = "kitchen"

(* C7 as claimed: no request reads data that a request handled at the same *)
(* time writes, the generator included.                                    *)
C7_NothingShared ==
    \A w1, w2 \in Workers :
        (w1 # w2 /\ pc[w1] = "sampled" /\ pc[w2] = "sampled") =>
            seen[w2] # RngNext(seen[w1])

\* a response is what the handler returns when run alone on what it read
C7_ResponseAsAlone ==
    /\ Answered =>
         /\ out.body = GetTemperature(out.query.text, out.rngRead, out.now)
         /\ out.body.value.den = 10
         /\ out.body.value.num \in Tenths
         /\ out.body.unit = "C"
         /\ out.body.location = out.query.text
    /\ \A w \in Workers : pc[w] = "sampled" =>
         value[w] = Round(Uniform(LowTemp, HighTemp, Random(seen[w])), NDigits)

\* the locals of the call worker w is in
Locals(w) == <<pc[w], req[w], loc[w], seen[w], x[w], value[w]>>

\* one step changes the locals of one request, and a draw is one step
C7_OwnLocalsOnly ==
    /\ \A w1, w2 \in Workers :
         (Locals(w1)' # Locals(w1) /\ Locals(w2)' # Locals(w2)) => w1 = w2
    /\ \A w \in Workers :
         (pc[w] = "bound" /\ pc'[w] = "sampled") =>
             (seen'[w] = rng /\ rng' = RngNext(rng))

(* C7: under every interleaving each response is what the handler returns  *)
(* when run alone on the generator state and the clock it read; a step of  *)
(* one request changes no local of another; the one thing requests in      *)
(* flight together share and write is the state of the process-wide        *)
(* generator, which each draw reads and advances in one step.              *)
C7_SharedOnlyGenerator ==
    [](C7_ResponseAsAlone) /\ [][C7_OwnLocalsOnly]_vars

\* two requests in flight together, both past their draw
C7_Witness ==
    \E w1, w2 \in Workers :
        /\ w1 # w2
        /\ pc[w1] = "sampled"
        /\ pc[w2] = "sampled"
        /\ seen[w2] = RngNext(seen[w1])

(* C8 as claimed: handling a request changes no state that a later request *)
(* reads.                                                                  *)
C8_NothingMutated ==
    [][rng' = rng]_vars

\* what one step does to the generator and what a response holds after it
C8_Step ==
    /\ rng' # rng =>
         /\ rng' = RngNext(rng)
         /\ \E w \in Workers : pc[w] = "bound" /\ pc'[w] = "sampled"
    /\ (served' = served + 1 /\ out'.status = 422) => rng' = rng
    /\ (\E w \in Workers : pc[w] = "bound" /\ pc'[w] = "sampled") =>
         rng' = RngNext(rng)
    /\ out'.status = 200 =>
         /\ out'.body.unit = "C"
         /\ out'.body.location = out'.query.text
         /\ out'.body.value.den = 10
         /\ out'.body.value.num \in Tenths

(* C8: handling a request changes no state a later request reads except    *)
(* the state of the process-wide generator, which every request that       *)
(* carries a location advances by exactly one draw and a rejected request  *)
(* leaves alone; whatever requests came before, the response has unit "C", *)
(* the request's location and a value among the 601 tenths.                *)
C8_OnlyGeneratorAdvances ==
    [][C8_Step]_vars

\* a response whose draw was followed by another request's draw
C8_Witness ==
    /\ Answered
    /\ rng = RngNext(RngNext(out.rngRead))
    /\ served = MaxRequests

(* C9: the value is the drawn sample rounded to one decimal place: ten     *)
(* times the value is an integer, the value is one of the 601 tenths from  *)
(* -25.0 to 35.0 and is the tenth nearest to the sample, which itself lies *)
(* in the interval.                                                        *)
C9_RoundedToTenth ==
    /\ Cardinality(Tenths) = 601
    /\ \A w \in Workers : pc[w] = "sampled" =>
         /\ LowTemp * x[w].den <= x[w].num
         /\ x[w].num <= HighTemp * x[w].den
         /\ (10 * value[w].num) % value[w].den = 0
         /\ (10 * value[w].num) \div value[w].den \in Tenths
         /\ 2 * Abs(10 * value[w].num * x[w].den - 10 * x[w].num * value[w].den)
              <= x[w].den * value[w].den
    /\ Answered =>
         /\ (10 * out.body.value.num) % out.body.value.den = 0
         /\ (10 * out.body.value.num) \div out.body.value.den \in Tenths

\* a sample halfway between two tenths, -21.25, rounded to the even one
C9_Witness ==
    \E w \in Workers :
        /\ pc[w] = "sampled"
        /\ 4 * x[w].num = -85 * x[w].den
        /\ value[w] = Rat(-212, 10)

(* C10: the value, the unit and the timestamp do not depend on the         *)
(* location: run on the same generator state and clock with any other      *)
(* location, the handler returns the same three fields and the other       *)
(* location.                                                               *)
C10_LocationIndependent ==
    Answered =>
        /\ out.body = GetTemperature(out.query.text, out.rngRead, out.now)
        /\ \A l \in Locations :
             LET other == GetTemperature(l, out.rngRead, out.now)
             IN  /\ other.value = out.body.value
                 /\ other.unit = out.body.unit
                 /\ other.timestamp = out.body.timestamp
                 /\ other.location = l

\* a response to "kitchen" that differs from the one to "" in the location
C10_Witness ==
    /\ Answered
    /\ out.query.text = "kitchen"
    /\ GetTemperature("", out.rngRead, out.now).location # out.body.location
    /\ GetTemperature("", out.rngRead, out.now).value = out.body.value

====
